---- MODULE Spec2Model ----
(***************************************************************************)
(* async-class-co (src/index.js): wrap / wrapStaticMethods /               *)
(* wrapInstanceMethods / getStaticMethods / getInstanceMethods, and the    *)
(* adapter that co.wrap() installs on the selected methods.                *)
(*                                                                         *)
(* A class is two member tables: its static surface (the own properties    *)
(* of klass) and its instance surface (the own properties of               *)
(* klass.prototype).  All modelled data properties are writable, as class  *)
(* members are.                                                            *)
(***************************************************************************)
EXTENDS Integers, Sequences, FiniteSets, TLC

VARIABLES static, proto, nextUid, lastOp, returned, ncalls, call

vars == <<static, proto, nextUid, lastOp, returned, ncalls, call>>

(***************************************************************************)
(* Bounds                                                                  *)
(***************************************************************************)
\* number of API calls (wrap*/get*) made on the class in one behaviour
MaxCalls == 2
\* number of yield points in a generator body
MaxYields == 2

(***************************************************************************)
(* Property keys are strings, kept as sequences of characters so that      *)
(* key.endsWith('Async') is computed and not looked up.                    *)
(***************************************************************************)
KeyConstructor == <<"c","o","n","s","t","r","u","c","t","o","r">>
KeyFoo == <<"f","o","o">>
KeyBarAsync == <<"b","a","r","A","s","y","n","c">>

\* Object.getOwnPropertyNames order of the modelled keys
KeyOrder == <<KeyConstructor, KeyFoo, KeyBarAsync>>

Keys == {KeyOrder[i] : i \in 1..Len(KeyOrder)}

SuffixAsync == <<"A","s","y","n","c">>

\* String.prototype.endsWith
endsWith(key, suffix) ==
  /\ Len(key) >= Len(suffix)
  /\ SubSeq(key, Len(key) - Len(suffix) + 1, Len(key)) = suffix

(***************************************************************************)
(* Values.  A function value is either an original function of the class   *)
(* (identified by where it was declared, with the name of its constructor: *)
(* "Function" or "GeneratorFunction") or the closure createPromise that    *)
(* co.wrap(fn) returns, which is a fresh plain function per co.wrap call.  *)
(***************************************************************************)
NotAFunction == [tag |-> "value"]

OrigFn(surface, key, ctor) ==
  [tag |-> "orig", ctor |-> ctor, at |-> <<surface, key>>]

\* co.wrap(fn): function createPromise() { return co.call(this, fn.apply(this, arguments)) }
coWrap(fn, uid) == [tag |-> "createPromise", fn |-> fn, uid |-> uid]

\* typeof v === 'function'
IsFunction(v) == v.tag # "value"

\* v.constructor.name of a function value
ConstructorNameLosesKind(v) == IF v.tag = "orig" THEN v.ctor ELSE "GeneratorFunction"

ConstructorName(v) == IF v.tag = "orig" THEN v.ctor ELSE "Function"

(***************************************************************************)
(* Property descriptors of a member table.                                 *)
(***************************************************************************)
Absent == [desc |-> "absent"]
Accessor == [desc |-> "accessor"]
Data(v) == [desc |-> "data", value |-> v]

\* Object.getOwnPropertyNames(target)
OwnPropertyNames(target) ==
  SelectSeq(KeyOrder, LAMBDA k : target[k].desc # "absent")

_actualMethodKeys(target) ==
  LET noAccessor == SelectSeq(OwnPropertyNames(target),
                              LAMBDA k : target[k].desc # "accessor")
  IN  SelectSeq(noAccessor, LAMBDA k : IsFunction(target[k].value))

(***************************************************************************)
(* The methodNames argument as the caller passes it: any JavaScript value. *)
(***************************************************************************)
Arg(type, truthy, elems) == [type |-> type, truthy |-> truthy, elems |-> elems]

Undefined == Arg("undefined", FALSE, <<>>)

NonArrayArgs ==
  { Arg("null", FALSE, <<>>),
    Arg("string", FALSE, <<>>),  Arg("string", TRUE, <<>>),
    Arg("number", FALSE, <<>>),  Arg("number", TRUE, <<>>),
    Arg("boolean", FALSE, <<>>), Arg("boolean", TRUE, <<>>),
    Arg("object", TRUE, <<>>) }

ArrayArgs ==
  { Arg("array", TRUE, es) :
      es \in { <<>>, <<KeyFoo>>, <<KeyBarAsync>>, <<KeyConstructor>>,
               <<KeyFoo, KeyConstructor>>, <<KeyBarAsync, KeyFoo>> } }

MethodNamesArgs == {Undefined} \cup NonArrayArgs \cup ArrayArgs

\* methodNames instanceof Array
IsArray(mn) == mn.type = "array"

\* methodNames.indexOf(key) === -1
NotInArray(mn, key) == ~ \E i \in 1..Len(mn.elems) : mn.elems[i] = key

\* validateMethodNames throws
validateMethodNamesThrows(methodNames) ==
  methodNames.truthy /\ ~IsArray(methodNames)

(***************************************************************************)
(* wrapFunctions                                                           *)
(***************************************************************************)
\* the two early returns of the forEach callback, negated
selectedIgnoresList(target, key, methodNames) ==
  endsWith(key, SuffixAsync)
    \/ ConstructorName(target[key].value) = "GeneratorFunction"

selectedBySuffixOnly(target, key, methodNames) ==
  IF methodNames.truthy
    THEN ~NotInArray(methodNames, key)
    ELSE endsWith(key, SuffixAsync)

selected(target, key, methodNames) ==
  IF methodNames.truthy
    THEN ~NotInArray(methodNames, key)
    ELSE ~(~endsWith(key, SuffixAsync)
           /\ ConstructorName(target[key].value) # "GeneratorFunction")

RECURSIVE wrapEach(_, _, _, _)
wrapEach(keys, target, methodNames, uid) ==
  IF keys = <<>>
    THEN [target |-> target, uid |-> uid]
    ELSE LET key == Head(keys)
         IN  IF selected(target, key, methodNames)
               THEN wrapEach(Tail(keys),
                             [target EXCEPT ![key] = Data(coWrap(target[key].value, uid))],
                             methodNames, uid + 1)
               ELSE wrapEach(Tail(keys), target, methodNames, uid)

wrapFunctions(target, methodNames, uid) ==
  wrapEach(_actualMethodKeys(target), target, methodNames, uid)

(***************************************************************************)
(* getAllFunctions                                                         *)
(***************************************************************************)
RECURSIVE collectEach(_, _, _, _, _)
collectEach(keys, target, methodNames, functions, uid) ==
  IF keys = <<>>
    THEN [functions |-> functions, uid |-> uid]
    ELSE LET key == Head(keys)
             isAsyncFunction ==
               endsWith(key, SuffixAsync)
                 \/ ConstructorName(target[key].value) = "GeneratorFunction"
             adapted ==
               collectEach(Tail(keys), target, methodNames,
                           [functions EXCEPT ![key] = Data(coWrap(target[key].value, uid))],
                           uid + 1)
             skipped == collectEach(Tail(keys), target, methodNames, functions, uid)
             original ==
               collectEach(Tail(keys), target, methodNames,
                           [functions EXCEPT ![key] = Data(target[key].value)], uid)
         IN  IF methodNames.truthy
               THEN IF NotInArray(methodNames, key) THEN skipped ELSE adapted
               ELSE IF key = KeyConstructor THEN skipped
               ELSE IF ~isAsyncFunction THEN original
               ELSE adapted

getAllFunctions(target, methodNames, uid) ==
  collectEach(_actualMethodKeys(target), target, methodNames,
              [k \in Keys |-> Absent], uid)

(***************************************************************************)
(* The exported entry points, as functions of the class                    *)
(* k = [static, proto, uid, threw].                                        *)
(***************************************************************************)
wrapStaticMethods(k, methodNames) ==
  IF validateMethodNamesThrows(methodNames)
    THEN [k EXCEPT !.threw = TRUE]
    ELSE LET r == wrapFunctions(k.static, methodNames, k.uid)
         IN  [k EXCEPT !.static = r.target, !.uid = r.uid]

wrapInstanceMethods(k, methodNames) ==
  IF validateMethodNamesThrows(methodNames)
    THEN [k EXCEPT !.threw = TRUE]
    ELSE LET r == wrapFunctions(k.proto, methodNames, k.uid)
         IN  [k EXCEPT !.proto = r.target, !.uid = r.uid]

wrap(k, methodNames) ==
  IF validateMethodNamesThrows(methodNames)
    THEN [k EXCEPT !.threw = TRUE]
    ELSE LET k1 == wrapStaticMethods(k, methodNames)
         IN  IF k1.threw THEN k1 ELSE wrapInstanceMethods(k1, methodNames)

\* getStaticMethods(klass) and getInstanceMethods(klass) declare one parameter:
\* a second argument is dropped and getAllFunctions runs with methodNames
\* undefined.
getStaticMethods(k, methodNames) == getAllFunctions(k.static, Undefined, k.uid)

getInstanceMethods(k, methodNames) == getAllFunctions(k.proto, Undefined, k.uid)

(***************************************************************************)
(* What a wrapped function does when it is called: the input of a call.    *)
(* A generator body is its yield points in program order and how it ends.  *)
(* Each yield point yields a promise that will resolve, a promise that     *)
(* will reject, or a value co cannot await (a number), and may sit in a    *)
(* try/catch that swallows a fault thrown into it.                         *)
(***************************************************************************)
YieldedValues ==
  { [y |-> "resolves", val |-> "v1"], [y |-> "resolves", val |-> "v2"],
    [y |-> "rejects", val |-> "E1"], [y |-> "notYieldable", val |-> "7"] }

YieldPoints ==
  { [yield |-> y, catches |-> c] : y \in YieldedValues, c \in BOOLEAN }
    \ { p \in [yield : YieldedValues, catches : {TRUE}] : p.yield.y = "resolves" }

Endings == { [t |-> "return", val |-> "v3"], [t |-> "throw", val |-> "E2"] }

GenBodies ==
  [ steps : UNION { [1..n -> YieldPoints] : n \in 0..MaxYields }, final : Endings ]

NoGen == [steps |-> <<>>, final |-> [t |-> "return", val |-> "undefined"]]

\* the values a plain function returns
ReturnValues ==
  { [k |-> "primitive", val |-> "v3", gen |-> NoGen],
    [k |-> "promise", val |-> "v1", gen |-> NoGen],
    [k |-> "rejectingPromise", val |-> "E1", gen |-> NoGen],
    [k |-> "function", val |-> "v1", gen |-> NoGen],
    [k |-> "throwingFunction", val |-> "E1", gen |-> NoGen] }
  \cup { [k |-> "iterator", val |-> "", gen |-> g] : g \in GenBodies }

NoBody == [throws |-> FALSE, val |-> "", ret |-> [k |-> "none", val |-> "", gen |-> NoGen]]

PlainBodies ==
  { [throws |-> TRUE, val |-> "E2", ret |-> NoBody.ret] }
  \cup { [throws |-> FALSE, val |-> "", ret |-> r] : r \in ReturnValues }

\* calling a generator function runs none of its body: it returns the
\* generator object
GeneratorFunctionBodies ==
  { [throws |-> FALSE, val |-> "", ret |-> [k |-> "generator", val |-> "", gen |-> g]] :
      g \in GenBodies }

NotYielded == [state |-> "none", val |-> ""]

\* gen.next(val) / gen.throw(val) on a generator suspended at yield point pc
\* (pc = 0: not started)
genResume(g, pc, how, val) ==
  LET caught == how = "throw" /\ pc >= 1 /\ g.steps[pc].catches
  IN  IF how = "throw" /\ ~caught
        THEN [kind |-> "throw", val |-> val, pc |-> pc]
        ELSE IF pc < Len(g.steps)
          THEN [kind |-> "yield", val |-> g.steps[pc + 1].yield.y, pc |-> pc + 1]
          ELSE [kind |-> g.final.t, val |-> g.final.val, pc |-> pc]

(***************************************************************************)
(* co (the dependency required at src/index.js line 2), version 4:         *)
(*   co.wrap = function (fn) {                                             *)
(*     return createPromise;                                               *)
(*     function createPromise() {                                          *)
(*       return co.call(this, fn.apply(this, arguments)); } };             *)
(*   function co(gen) { var ctx = this;                                    *)
(*     return new Promise(function (resolve, reject) {                     *)
(*       if (typeof gen === 'function') gen = gen.apply(ctx, args);        *)
(*       if (!gen || typeof gen.next !== 'function') return resolve(gen);  *)
(*       onFulfilled();                                                    *)
(*       function onFulfilled(res) { var ret;                              *)
(*         try { ret = gen.next(res); } catch (e) { return reject(e); }    *)
(*         next(ret); }                                                    *)
(*       function onRejected(err) { var ret;                               *)
(*         try { ret = gen.throw(err); } catch (e) { return reject(e); }   *)
(*         next(ret); }                                                    *)
(*       function next(ret) {                                              *)
(*         if (ret.done) return resolve(ret.value);                        *)
(*         var value = toPromise.call(ctx, ret.value);                     *)
(*         if (value && isPromise(value))                                  *)
(*           return value.then(onFulfilled, onRejected);                   *)
(*         return onRejected(new TypeError(...)); } }); }                  *)
(* A call is the record of one invocation of an adapter: the state of the  *)
(* promise it returned (or "threw" when the invocation raised to its       *)
(* caller), the generator being driven, and the log of the settlements of the    *)
(* awaited promises ("settle") and of the resumptions of the generator     *)
(* ("next", "throw").                                                      *)
(***************************************************************************)
RECURSIVE coDrive(_, _, _)
coDrive(c, how, val) ==
  LET r == genResume(c.body.ret.gen, c.pc, how, val)
      c1 == [c EXCEPT !.log = Append(@, [how |-> how, val |-> val]),
                      !.yielded = NotYielded]
  IN  CASE r.kind = "throw" ->
             [c1 EXCEPT !.status = "rejected", !.value = r.val, !.raised = r.val]
        [] r.kind = "return" ->
             [c1 EXCEPT !.status = "resolved", !.value = r.val]
        [] r.kind = "yield" /\ r.val = "notYieldable" ->
             coDrive([c1 EXCEPT !.pc = r.pc], "throw", "TypeError")
        [] OTHER ->
             [c1 EXCEPT !.pc = r.pc, !.yielded = [state |-> "pending", val |-> ""]]

onFulfilledDropsValue(c, res) == coDrive(c, "next", "undefined")

onFulfilled(c, res) == coDrive(c, "next", res)

onRejectedAborts(c, err) ==
  [c EXCEPT !.status = "rejected", !.value = err, !.yielded = NotYielded]

onRejected(c, err) == coDrive(c, "throw", err)

\* co.call(this, ret): the promise for the value ret that fn.apply returned
co(c, ret) ==
  CASE ret.k = "function" -> [c EXCEPT !.status = "resolved", !.value = ret.val]
    [] ret.k = "throwingFunction" -> [c EXCEPT !.status = "rejected", !.value = ret.val]
    [] ret.k = "primitive" -> [c EXCEPT !.status = "resolved", !.value = ret.val]
    [] ret.k \in {"promise", "rejectingPromise"} ->
         [c EXCEPT !.following = [state |-> "pending", val |-> ""]]
    [] OTHER -> onFulfilled(c, "undefined")

\* createPromise(): fn.apply(this, arguments) is evaluated first, outside any
\* promise; then co.call wraps what it returned.  When fn is itself an
\* adapter, what it returned is a promise, which co resolves its own promise
\* with: the outer promise takes the state of the inner one, and the two are
\* kept as one record.
RECURSIVE createPromise(_, _)
createPromise(fn, c) ==
  IF fn.tag = "createPromise"
    THEN createPromise(fn.fn, c)
    ELSE IF c.body.throws
           THEN [c EXCEPT !.status = "threw", !.value = c.body.val,
                          !.raised = c.body.val]
           ELSE co(c, c.body.ret)

(***************************************************************************)
(* State                                                                   *)
(***************************************************************************)
Klass == [static |-> static, proto |-> proto, uid |-> nextUid, threw |-> FALSE]

NoCall ==
  [status |-> "none", value |-> "", raised |-> "", at |-> <<"", <<>>>>,
   body |-> NoBody, pc |-> 0, yielded |-> NotYielded, following |-> NotYielded,
   log |-> <<>>]

NoOp == [op |-> "none", methodNames |-> Undefined, threw |-> FALSE]

NothingReturned == [k \in Keys |-> Absent]

\* The classes handed to the library.  klass.prototype.constructor is the
\* class itself, a plain function; the other instance members are of every
\* kind of property; the static surface holds a method "foo" and a method
\* "barAsync", each plain or a generator function.
PropChoices(surface, key) ==
  IF key = KeyConstructor
    THEN { Data(OrigFn(surface, key, "Function")) }
    ELSE { Absent, Accessor, Data(NotAFunction),
           Data(OrigFn(surface, key, "Function")),
           Data(OrigFn(surface, key, "GeneratorFunction")) }

StaticChoices(key) ==
  IF key = KeyConstructor
    THEN {Absent}
    ELSE { Data(OrigFn("static", key, "Function")),
           Data(OrigFn("static", key, "GeneratorFunction")) }

Init ==
  /\ static \in { t \in [Keys -> UNION {StaticChoices(k) : k \in Keys}] :
                    \A k \in Keys : t[k] \in StaticChoices(k) }
  /\ proto \in { t \in [Keys -> UNION {PropChoices("proto", k) : k \in Keys}] :
                   \A k \in Keys : t[k] \in PropChoices("proto", k) }
  /\ nextUid = 1
  /\ lastOp = NoOp
  /\ returned = NothingReturned
  /\ ncalls = 0
  /\ call = NoCall

Mutating(op, k) ==
  /\ ncalls < MaxCalls
  /\ ncalls' = ncalls + 1
  /\ static' = k.static
  /\ proto' = k.proto
  /\ nextUid' = k.uid
  /\ lastOp' = [op |-> op.op, methodNames |-> op.methodNames, threw |-> k.threw]
  /\ returned' = NothingReturned
  /\ UNCHANGED call

Reading(op, r) ==
  /\ ncalls < MaxCalls
  /\ ncalls' = ncalls + 1
  /\ nextUid' = r.uid
  /\ lastOp' = [op |-> op.op, methodNames |-> op.methodNames, threw |-> FALSE]
  /\ returned' = r.functions
  /\ UNCHANGED <<static, proto, call>>

Wrap ==
  \E mn \in MethodNamesArgs :
    Mutating([op |-> "wrap", methodNames |-> mn], wrap(Klass, mn))

WrapStaticMethods ==
  \E mn \in MethodNamesArgs :
    Mutating([op |-> "wrapStaticMethods", methodNames |-> mn],
             wrapStaticMethods(Klass, mn))

WrapInstanceMethods ==
  \E mn \in MethodNamesArgs :
    Mutating([op |-> "wrapInstanceMethods", methodNames |-> mn],
             wrapInstanceMethods(Klass, mn))

GetStaticMethods ==
  \E mn \in MethodNamesArgs :
    Reading([op |-> "getStaticMethods", methodNames |-> mn],
            getStaticMethods(Klass, mn))

GetInstanceMethods ==
  \E mn \in MethodNamesArgs :
    Reading([op |-> "getInstanceMethods", methodNames |-> mn],
            getInstanceMethods(Klass, mn))

(***************************************************************************)
(* Calling an adapted method                                               *)
(***************************************************************************)
Surface(name) == IF name = "static" THEN static ELSE proto

RECURSIVE Wrapped(_)
Wrapped(fn) == IF fn.tag = "createPromise" THEN Wrapped(fn.fn) ELSE fn

BodiesOf(fn) ==
  IF ConstructorName(Wrapped(fn)) = "GeneratorFunction"
    THEN GeneratorFunctionBodies
    ELSE PlainBodies

\* wrap(klass), as in the README: module.exports = wrap(FakeDataStore)
WrapClass ==
  /\ call = NoCall
  /\ Mutating([op |-> "wrap", methodNames |-> Undefined], wrap(Klass, Undefined))

\* klass[key](...) or instance[key](...) on a property that holds an adapter
Invoke ==
  /\ call.status = "none"
  /\ \E s \in {"static", "proto"}, key \in Keys :
       /\ Surface(s)[key].desc = "data"
       /\ Surface(s)[key].value.tag = "createPromise"
       /\ \E body \in BodiesOf(Surface(s)[key].value) :
            call' = createPromise(Surface(s)[key].value,
                                  [NoCall EXCEPT !.status = "pending",
                                                 !.at = <<s, key>>,
                                                 !.body = body])
  /\ UNCHANGED <<static, proto, nextUid, lastOp, returned, ncalls>>

Fate(y) == IF y \in {"resolves", "promise"} THEN "resolved" ELSE "rejected"

\* the promise the call is waiting for settles
Settle ==
  /\ call.status = "pending"
  /\ \/ /\ call.yielded.state = "pending"
        /\ LET y == call.body.ret.gen.steps[call.pc].yield
           IN  call' = [call EXCEPT !.yielded = [state |-> Fate(y.y), val |-> y.val],
                                    !.log = Append(@, [how |-> "settle", val |-> y.val])]
     \/ /\ call.following.state = "pending"
        /\ call' = [call EXCEPT !.following =
                      [state |-> Fate(call.body.ret.k), val |-> call.body.ret.val],
                                !.log = Append(@, [how |-> "settle",
                                                   val |-> call.body.ret.val])]
  /\ UNCHANGED <<static, proto, nextUid, lastOp, returned, ncalls>>

\* value.then(onFulfilled, ...) fires
OnFulfilled ==
  /\ call.status = "pending"
  /\ call.yielded.state = "resolved"
  /\ call' = onFulfilled(call, call.yielded.val)
  /\ UNCHANGED <<static, proto, nextUid, lastOp, returned, ncalls>>

\* value.then(..., onRejected) fires
OnRejected ==
  /\ call.status = "pending"
  /\ call.yielded.state = "rejected"
  /\ call' = onRejected(call, call.yielded.val)
  /\ UNCHANGED <<static, proto, nextUid, lastOp, returned, ncalls>>

\* resolve(p) with p a promise: the returned promise follows p
Adopt ==
  /\ call.status = "pending"
  /\ call.following.state \in {"resolved", "rejected"}
  /\ call' = [call EXCEPT !.status = call.following.state,
                          !.value = call.following.val]
  /\ UNCHANGED <<static, proto, nextUid, lastOp, returned, ncalls>>

InitCall ==
  /\ static = [k \in Keys |-> Absent]
  /\ proto \in { t \in [Keys -> UNION {PropChoices("proto", k) : k \in Keys}] :
                   \A k \in Keys :
                     /\ t[k] \in PropChoices("proto", k)
                     /\ t[k].desc = "data"
                     /\ IsFunction(t[k].value) }
  /\ nextUid = 1
  /\ lastOp = NoOp
  /\ returned = NothingReturned
  /\ ncalls = 0
  /\ call = NoCall

NextCall ==
  \/ WrapClass
  \/ Invoke
  \/ Settle
  \/ OnFulfilled
  \/ OnRejected
  \/ Adopt

SpecCall == InitCall /\ [][NextCall]_vars

Next ==
  \/ Wrap
  \/ WrapStaticMethods
  \/ WrapInstanceMethods
  \/ GetStaticMethods
  \/ GetInstanceMethods

Spec == Init /\ [][Next]_vars

(***************************************************************************)
(* Properties of the wrap* and get* entry points (checked under Spec)      *)
(***************************************************************************)
WrapOps == {"wrap", "wrapStaticMethods", "wrapInstanceMethods"}

GetOps == {"getStaticMethods", "getInstanceMethods"}

\* the surfaces an entry point processes
Processes(op, s) ==
  \/ op \in {"wrap"}
  \/ op \in {"wrapStaticMethods", "getStaticMethods"} /\ s = "static"
  \/ op \in {"wrapInstanceMethods", "getInstanceMethods"} /\ s = "proto"

SurfaceNext(name) == IF name = "static" THEN static' ELSE proto'

\* an own, function-typed, non-accessor property
IsMethod(p) == p.desc = "data" /\ p.value.tag # "value"

IsAdapter(p) == p.desc = "data" /\ p.value.tag = "createPromise"

IsGeneratorFunction(p) ==
  p.desc = "data" /\ p.value.tag = "orig" /\ p.value.ctor = "GeneratorFunction"

\* post holds an adapter around the value pre held
AdapterOf(post, pre) == IsAdapter(post) /\ post.value.fn = pre.value

AsyncNamed == {KeyBarAsync}

Listed(mn) == {mn.elems[i] : i \in 1..Len(mn.elems)}

\* a step that is one call of an entry point
CallStep == ncalls' = ncalls + 1

\* C1: wrap, wrapStaticMethods and wrapInstanceMethods called without
\* methodNames replace, on the surface they process, a method by an adapter
\* around it if and only if its name ends with 'Async' or it is a
\* GeneratorFunction; every other property keeps its value.
C1_SelectsSuffixOrGenerator ==
  [][ (CallStep /\ lastOp'.op \in WrapOps /\ lastOp'.methodNames = Undefined)
        => \A s \in {"static", "proto"}, k \in Keys :
             LET pre == Surface(s)[k]
                 post == SurfaceNext(s)[k]
             IN  IF /\ Processes(lastOp'.op, s)
                    /\ IsMethod(pre)
                    /\ (k \in AsyncNamed \/ IsGeneratorFunction(pre))
                   THEN AdapterOf(post, pre)
                   ELSE post = pre ]_vars

C1_Witness ==
  /\ ncalls = 1
  /\ lastOp = [op |-> "wrap", methodNames |-> Undefined, threw |-> FALSE]
  /\ proto[KeyFoo] = Data(coWrap(OrigFn("proto", KeyFoo, "GeneratorFunction"), 2))
  /\ proto[KeyBarAsync] = Accessor
  /\ static[KeyFoo] = Data(OrigFn("static", KeyFoo, "Function"))
  /\ static[KeyBarAsync] = Data(coWrap(OrigFn("static", KeyBarAsync, "Function"), 1))

\* C3: a property named 'constructor' never holds an adapter, whatever
\* methodNames the wrap* family was called with.
C3_ConstructorNeverWrapped ==
  \A s \in {"static", "proto"} : ~IsAdapter(Surface(s)[KeyConstructor])

\* C4: a methodNames value that is neither undefined nor an array makes
\* wrap, wrapStaticMethods and wrapInstanceMethods raise, with no property
\* of either surface replaced.
C4_NonArrayAlwaysRaises ==
  [][ (CallStep /\ lastOp'.op \in WrapOps
       /\ lastOp'.methodNames # Undefined /\ ~IsArray(lastOp'.methodNames))
        => (lastOp'.threw /\ static' = static /\ proto' = proto) ]_vars

\* C5: with a methodNames array, a method of the processed surface is
\* replaced by an adapter around it if and only if its name is in the array,
\* whatever its suffix or kind; every other property keeps its value.
C5_ArrayIsSoleCriterion ==
  [][ (CallStep /\ lastOp'.op \in WrapOps /\ IsArray(lastOp'.methodNames))
        => /\ ~lastOp'.threw
           /\ \A s \in {"static", "proto"}, k \in Keys :
                LET pre == Surface(s)[k]
                    post == SurfaceNext(s)[k]
                IN  IF /\ Processes(lastOp'.op, s)
                       /\ IsMethod(pre)
                       /\ k \in Listed(lastOp'.methodNames)
                      THEN AdapterOf(post, pre)
                      ELSE post = pre ]_vars

C5_Witness ==
  /\ ncalls = 1
  /\ lastOp = [op |-> "wrapInstanceMethods",
               methodNames |-> Arg("array", TRUE, <<KeyFoo>>), threw |-> FALSE]
  /\ proto[KeyFoo] = Data(coWrap(OrigFn("proto", KeyFoo, "Function"), 1))
  /\ proto[KeyBarAsync] = Data(OrigFn("proto", KeyBarAsync, "GeneratorFunction"))
  /\ static[KeyFoo] = Data(OrigFn("static", KeyFoo, "GeneratorFunction"))

\* C8: getStaticMethods and getInstanceMethods called with a methodNames
\* array return exactly the listed methods other than 'constructor', each as
\* an adapter around the method.
C8_GetHonoursAllowList ==
  (lastOp.op \in GetOps /\ IsArray(lastOp.methodNames))
    => \A s \in {"static", "proto"}, k \in Keys :
         Processes(lastOp.op, s)
           => IF /\ IsMethod(Surface(s)[k])
                 /\ k \in Listed(lastOp.methodNames)
                 /\ k # KeyConstructor
                THEN AdapterOf(returned[k], Surface(s)[k])
                ELSE returned[k] = Absent

\* the second of two identical, successful wrap calls on a fresh class
SecondWrap ==
  /\ ncalls = 1
  /\ CallStep
  /\ lastOp.op = "wrap"
  /\ ~lastOp.threw
  /\ lastOp' = lastOp

\* C10 as stated: the second of two identical wrap calls re-wraps every
\* callable the first call adapted, skipping none.
C10_SecondWrapRewrapsAll ==
  [][ SecondWrap
        => \A s \in {"static", "proto"}, k \in Keys :
             IsAdapter(Surface(s)[k])
               => /\ AdapterOf(SurfaceNext(s)[k], Surface(s)[k])
                  /\ SurfaceNext(s)[k] # Surface(s)[k] ]_vars

\* C10 amended: the second of two identical wrap calls re-wraps the
\* callables the first call adapted that it still selects (those named in
\* the methodNames array, or with no methodNames those whose name ends with
\* 'Async') and leaves the other adapters, those of GeneratorFunctions
\* without the suffix, identical.
C10_SecondWrapRewrapsSelected ==
  [][ SecondWrap
        => \A s \in {"static", "proto"}, k \in Keys :
             IsAdapter(Surface(s)[k])
               => IF (IF IsArray(lastOp.methodNames)
                        THEN k \in Listed(lastOp.methodNames)
                        ELSE k \in AsyncNamed)
                    THEN /\ AdapterOf(SurfaceNext(s)[k], Surface(s)[k])
                         /\ SurfaceNext(s)[k] # Surface(s)[k]
                    ELSE SurfaceNext(s)[k] = Surface(s)[k] ]_vars

C10_Witness ==
  /\ ncalls = 2
  /\ lastOp = [op |-> "wrap", methodNames |-> Undefined, threw |-> FALSE]
  /\ IsAdapter(proto[KeyFoo])
  /\ proto[KeyFoo].value.fn = OrigFn("proto", KeyFoo, "GeneratorFunction")
  /\ IsAdapter(proto[KeyBarAsync])
  /\ IsAdapter(Data(proto[KeyBarAsync].value.fn))
  /\ proto[KeyBarAsync].value.fn.fn = OrigFn("proto", KeyBarAsync, "GeneratorFunction")

(***************************************************************************)
(* Properties of one call of an adapter (checked under SpecCall)           *)
(***************************************************************************)
Settled == {"resolved", "rejected"}

\* the body driven by co: that of a generator function, or the iterator a
\* plain function returned
Driven == call.body.ret.gen

\* the call is of an adapted plain function that returned (did not raise)
PlainReturned ==
  /\ call.status # "none"
  /\ ~call.body.throws
  /\ call.body.ret.k # "generator"

\* what "the returned value itself" is, for each kind of returned value
Itself(ret) ==
  CASE ret.k = "primitive" -> ret.val
    [] ret.k \in {"function", "throwingFunction"} -> "the function"
    [] OTHER -> "the iterator"

\* C2: a fault raised by the body of an adapted callable, plain or
\* suspend-style, rejects the promise the adapter returned with that fault;
\* the adapter call never raises to its caller.
C2_FaultsBecomeRejections ==
  /\ call.status # "threw"
  /\ call.raised # "" => (call.status = "rejected" /\ call.value = call.raised)

\* the log of a call that starts a generator whose every yielded promise
\* resolves, each resumption following the settlement of the promise
ResolvingLog(g) ==
  LET n == Len(g.steps)
  IN  [i \in 1..(2 * n + 1) |->
         IF i = 1 THEN [how |-> "next", val |-> "undefined"]
         ELSE IF i % 2 = 0 THEN [how |-> "settle", val |-> g.steps[i \div 2].yield.val]
         ELSE [how |-> "next", val |-> g.steps[(i - 1) \div 2].yield.val]]

AllResolve(g) ==
  /\ g.final.t = "return"
  /\ \A i \in 1..Len(g.steps) : g.steps[i].yield.y = "resolves"

\* C6: an adapted suspend-style callable whose yielded promises resolve to
\* v1, v2, ... and which then returns v3 is started once and resumed once
\* per yielded promise, with v1, v2, ... in that order, each resumption
\* after the promise resolved; the returned promise resolves to v3.
C6_ResumedInOrderThenResolved ==
  (call.status # "none" /\ call.body.ret.k = "generator" /\ AllResolve(Driven))
    => /\ call.status \in {"pending", "resolved"}
       /\ Len(call.log) <= 2 * Len(Driven.steps) + 1
       /\ call.log = SubSeq(ResolvingLog(Driven), 1, Len(call.log))
       /\ call.status = "resolved"
            => /\ call.log = ResolvingLog(Driven)
               /\ call.value = Driven.final.val

C6_Witness ==
  /\ call.status = "resolved"
  /\ call.value = "v3"
  /\ call.body.ret.k = "generator"
  /\ Len(Driven.steps) = 2
  /\ call.log = << [how |-> "next", val |-> "undefined"],
                   [how |-> "settle", val |-> "v1"], [how |-> "next", val |-> "v1"],
                   [how |-> "settle", val |-> "v2"], [how |-> "next", val |-> "v2"] >>

\* C7: the promise returned by an adapted plain function that returned v
\* resolves to v itself when v is not a promise (a function and an object
\* with a next method included) and follows v when v is a promise.
C7_PlainResultIsTheReturnedValue ==
  (PlainReturned /\ call.status # "pending")
    => IF call.body.ret.k \in {"promise", "rejectingPromise"}
         THEN /\ call.status = Fate(call.body.ret.k)
              /\ call.value = call.body.ret.val
         ELSE /\ call.status = "resolved"
              /\ call.value = Itself(call.body.ret)

\* a step in which co reacts to the rejection of the yielded promise
RejectionDelivered ==
  /\ call.yielded.state = "rejected"
  /\ call' # call

\* C9: a yielded promise that rejects with E does not reject the returned
\* promise at once: E is thrown into the generator at that yield point.  If
\* the generator catches it, driving continues from the next yield point or
\* the returned promise settles as the generator ends; if not, the returned
\* promise rejects with E.  A settled call never resumes the generator.
C9_RejectionIsThrownIntoGenerator ==
  [][ /\ call'.yielded.state = "rejected" => call'.status = "pending"
      /\ call.status \in Settled => call'.log = call.log
      /\ RejectionDelivered
           => LET E == call.yielded.val
                  i == call.pc
                  n == Len(call.log)
              IN  /\ Len(call'.log) > n
                  /\ call'.log[n + 1] = [how |-> "throw", val |-> E]
                  /\ IF ~Driven.steps[i].catches
                       THEN /\ call'.status = "rejected"
                            /\ call'.value = E
                            /\ Len(call'.log) = n + 1
                       ELSE IF i < Len(Driven.steps)
                         THEN call'.pc > i
                         ELSE /\ Len(call'.log) = n + 1
                              /\ call'.status =
                                   (IF Driven.final.t = "return"
                                      THEN "resolved" ELSE "rejected")
                              /\ call'.value = Driven.final.val ]_vars

C9_Witness ==
  /\ call.status = "resolved"
  /\ call.value = "v3"
  /\ call.body.ret.k = "generator"
  /\ call.log = << [how |-> "next", val |-> "undefined"],
                   [how |-> "settle", val |-> "E1"], [how |-> "throw", val |-> "E1"],
                   [how |-> "settle", val |-> "v2"], [how |-> "next", val |-> "v2"] >>

====
